---- MODULE Spec2Model ----
(***************************************************************************)
(* Model of the request tracker and the background pipeline of             *)
(* src/main.py: the POST /api/build handler (build_and_deploy), the        *)
(* tracker sweep (cleanup_old_requests) and the background unit of work    *)
(* (process_task) with the collaborators it calls.                         *)
(*                                                                         *)
(* Scheduling.  The application runs on one event loop (uvicorn.run, one   *)
(* process).  build_and_deploy contains no await, so it is one atomic      *)
(* step.  process_task is started by the framework after the response has  *)
(* been sent, so other requests can be served between the handler and the  *)
(* start of its background task; once started it runs to the first await   *)
(* it really executes.  Wall-clock time passes freely (the collaborators'  *)
(* calls block for as long as they take).                                  *)
(*                                                                         *)
(* The generator's and the validator's methods (services/llm_generator.py, *)
(* services/validator.py) are functions of their arguments and of what     *)
(* the language model answers.  They are operators over text, and the      *)
(* specifications SpecCreate, SpecUpdate, SpecFix and SpecVal call them    *)
(* once on each input of a bounded set.                                    *)
(***************************************************************************)
EXTENDS Integers, Sequences, FiniteSets, Bags, TLC

(* ------------------------------ bounds -------------------------------- *)
\* number of times the clock is advanced in a behaviour
MaxTicks == 2
\* background tasks scheduled and not yet run, at any one time
MaxPending == 3

(* ------------------------- program constants -------------------------- *)
\* main.py:37  TRACKER_CLEANUP_INTERVAL = 900  # 15 minutes in seconds
TRACKER_CLEANUP_INTERVAL == 900
\* main.py:186  if len(request_tracker) % 10 == 0:  # Every 10th request
CLEANUP_EVERY == 10

(* ------------------------------ inputs -------------------------------- *)
\* Python None where a dict is expected (a deployment, an entry's result)
None == [type |-> "None"]
\* Python None where a string is expected (an entry without "error" key)
NoError == "None"

\* task ids are strings; a string is a sequence of characters here so that
\* str.replace can be computed
Tasks == { <<"a", ".", "b", "_", "c">> }
Rounds == {1, 2}
Nonces == {"n1"}
\* request_key = (request.task, request.round, request.nonce)
Keys == Tasks \X Rounds \X Nonces

\* identities of earlier requests whose entries are still in the tracker
OldNonces == {"o1", "o2", "o3", "o4", "o5", "o6", "o7", "o8"}
OldKeys == { << <<"o">>, 1, n >> : n \in OldNonces }

\* how far the clock may jump between two steps, in seconds
TickSteps == {1, 900}

\* outcome of the credential comparison of main.py:141 and main.py:149
Credentials == {"ok", "bad_email", "bad_secret"}

\* what the external collaborators do (or would do) when called
Env == [ existing  : {"files", "empty"},
         generator : {"ok", "raise"},
         publisher : {"ok", "raise"},
         notifier  : {"ok", "fail", "raise"},
         live      : {"passed", "errors", "raise"} ]

VARIABLES
    request_tracker,   \* main.py:36, dict keyed by request_key
    background_tasks,  \* bag of process_task calls scheduled, not yet run
    now,               \* time.time()
    ticks,             \* number of clock advances so far
    last,              \* what the last step did and answered (response, log)
    call               \* the last direct call of a generator or validator
                       \* method: its arguments and what it returned

vars == <<request_tracker, background_tasks, now, ticks, last, call>>

(* ----------------------------- tracker -------------------------------- *)
\* the dict literal of main.py:177-181
ProcessingEntry(t) ==
    [status |-> "processing", timestamp |-> t, result |-> None, error |-> NoError]

\* the dict literals of main.py:416-420 and main.py:424-428
CompletedEntry(t, deployment) ==
    [status |-> "completed", timestamp |-> t, result |-> deployment, error |-> NoError]

\* the dict literal of main.py:433-438
FailedEntry(t, e) ==
    [status |-> "failed", timestamp |-> t, result |-> None, error |-> e]

\* request_tracker[key] = entry
Store(tracker, key, entry) ==
    [k \in DOMAIN tracker \cup {key} |-> IF k = key THEN entry ELSE tracker[k]]

\* keys_to_remove with the age compared by >= (the window's last second is lost)
KeysToRemove_AtLeast(tracker, current_time) ==
    { key \in DOMAIN tracker :
        current_time - tracker[key].timestamp >= TRACKER_CLEANUP_INTERVAL }

\* keys_to_remove of main.py:53-56
KeysToRemove(tracker, current_time) ==
    { key \in DOMAIN tracker :
        current_time - tracker[key].timestamp > TRACKER_CLEANUP_INTERVAL }

\* cleanup_old_requests, main.py:50-62: del request_tracker[key] for each
cleanup_old_requests(tracker, current_time) ==
    [k \in DOMAIN tracker \ KeysToRemove(tracker, current_time) |-> tracker[k]]

(* --------------------------- collaborators ---------------------------- *)
\* str.replace(old, new) on a one-character pattern
Replace(s, old, new) ==
    [i \in 1..Len(s) |-> IF s[i] = old THEN new ELSE s[i]]

\* main.py:228  repo_name = request.task.replace(".", "-").replace("_", "-")
RepoName(task) == Replace(Replace(task, ".", "-"), "_", "-")

\* the dict built at github_service.py:61-65 and github_service.py:103-107
DeploymentRecord(repo_name) ==
    [type |-> "dict", repo_url |-> <<"repo", repo_name>>,
     commit_sha |-> "sha", pages_url |-> <<"pages", repo_name>>]

\* github_service.py:22 `async def create_and_deploy`: a call that is not
\* awaited runs none of its body and returns a coroutine object
create_and_deploy(repo_name) ==
    [type |-> "coroutine", fn |-> "create_and_deploy", repo_name |-> repo_name]

\* github_service.py:71 `async def update_repository`, likewise
update_repository(repo_name) ==
    [type |-> "coroutine", fn |-> "update_repository", repo_name |-> repo_name]

\* obj[key]: a coroutine object is not subscriptable (TypeError)
Subscriptable(obj) == obj.type = "dict"

\* github_service.py:116-166: the files of the repository, {} on a 404
get_repository_files(env) ==
    IF env.existing = "files" THEN {"index.html", "LICENSE", "README.md"} ELSE {}

(* ---------------------------- process_task ---------------------------- *)
\* an except clause that logs the error and writes nothing
except_handler_LogOnly(tracker, request_key, t, e) == tracker

\* an except clause that fails every entry still in processing
except_handler_AllProcessing(tracker, request_key, t, e) ==
    [k \in DOMAIN tracker \cup {request_key} |->
        IF k = request_key \/ tracker[k].status = "processing"
        THEN FailedEntry(t, e) ELSE tracker[k]]

\* main.py:430-438, the except clause: the entry is written unconditionally
except_handler(tracker, request_key, t, e) ==
    Store(tracker, request_key, FailedEntry(t, e))

\* main.py:413-428, both branches of `if success`: written unconditionally
mark_completed(tracker, request_key, t, deployment) ==
    Store(tracker, request_key, CompletedEntry(t, deployment))

\* request.round left as it was received
EffectiveRound_NoFallback(round, existing_files) == round

\* request.round as main.py:232-238 leaves it: 1 when nothing was fetched
EffectiveRound(round, existing_files) ==
    IF round > 1 /\ existing_files = {} THEN 1 ELSE round

\* llm_generator.py:65-70, the branch generate_app takes
generate_app(round_num, existing_files) ==
    IF round_num > 1 /\ existing_files # {}
    THEN "_update_existing_app"
    ELSE "_create_new_app"

\* main.py:396-400, the keyword arguments of EvaluationNotification that are
\* read from the request, in the order they are evaluated
notification_identity(request, round) ==
    [task |-> request.task, round |-> round, nonce |-> request.nonce]

\* main.py:203-438, the body of the try block for one request under one
\* behaviour of the collaborators.  raised names the statement whose
\* exception reached the except clause ("none" if the try block finished);
\* round is request.round as line 238 leaves it; generated_by is the branch
\* of generate_app; live is what the live-validation step (main.py:364-390)
\* did; published and notified tell whether the publisher's body and the
\* notifier were run; notification holds the
\* identity fields main.py:397-400 evaluated (None if they were not reached).
process_task(request, env) ==
    LET repo_name == RepoName(request.task)
        \* main.py:231-238
        existing_files ==
            IF request.round > 1 THEN get_repository_files(env) ELSE {}
        round == EffectiveRound(request.round, existing_files)
        \* main.py:242-249
        generated_by == generate_app(round, existing_files)
        \* main.py:344-357, called without await
        deployment ==
            IF round = 1 THEN create_and_deploy(repo_name)
                         ELSE update_repository(repo_name)
        notification == notification_identity(request, round)
    IN  IF env.generator = "raise"
        THEN \* main.py:242, generator.generate_app raises
             [raised |-> "generate_app", error |-> "generator error",
              round |-> round, generated_by |-> generated_by,
              deployment |-> None, live |-> "not reached",
              published |-> FALSE, notified |-> FALSE, success |-> FALSE,
              notification |-> None]
        ELSE IF ~Subscriptable(deployment)
        THEN \* main.py:366 raises TypeError inside the inner try (swallowed,
             \* main.py:389); main.py:403 raises it again outside
             [raised |-> "EvaluationNotification", error |-> "TypeError",
              round |-> round, generated_by |-> generated_by,
              deployment |-> deployment, live |-> "TypeError swallowed",
              published |-> FALSE, notified |-> FALSE, success |-> FALSE,
              notification |-> notification]
        ELSE IF env.notifier = "raise"
        THEN \* main.py:408
             [raised |-> "notify_evaluation_server", error |-> "notifier error",
              round |-> round, generated_by |-> generated_by,
              deployment |-> deployment, live |-> env.live,
              published |-> TRUE, notified |-> TRUE, success |-> FALSE,
              notification |-> notification]
        ELSE [raised |-> "none", error |-> NoError,
              round |-> round, generated_by |-> generated_by,
              deployment |-> deployment, live |-> env.live,
              published |-> TRUE, notified |-> TRUE,
              success |-> (env.notifier = "ok"),
              notification |-> notification]

\* outcome of the per-check validation and of the targeted fix: no check
\* failed, checks failed and the fix returned the files as they were, checks
\* failed and the fix changed the files
CheckOutcomes == {"passed", "failed", "fixed"}

\* main.py:298-342, the calls of the targeted-fix block: none when no check
\* failed, the fix alone when it returned the files unchanged, the fix and
\* the re-validation when it changed them
remediation(checks) ==
    IF checks = "passed" THEN <<>>
    ELSE IF checks = "failed" THEN <<"fix_validation_failures">>
    ELSE <<"fix_validation_failures", "validate_against_checks">>

\* main.py:203-438, the calls whose bodies process_task runs, in order, for
\* one request under one behaviour of the collaborators and one outcome of
\* the checks; the last element is the status written to the tracker
steps(request, env, checks) ==
    LET run == process_task(request, env)
        fetched == IF request.round > 1 THEN <<"get_repository_files">> ELSE <<>>
        \* main.py:242-342
        validated == fetched \o <<"generate_app", "validate_static_files",
                                  "validate_against_checks">>
                             \o remediation(checks)
        \* main.py:344-357
        publish == IF run.round = 1 THEN "create_and_deploy"
                                    ELSE "update_repository"
        mark == IF run.raised = "none" THEN "completed" ELSE "failed"
    IN  IF run.raised = "generate_app"
        THEN fetched \o <<"generate_app", mark>>
        ELSE IF ~run.published
        THEN \* the publisher's coroutine is created and never run; line 366
             \* raises before validate_deployed_page is called, line 403
             \* before the notifier is
             validated \o <<mark>>
        ELSE validated \o <<publish, "validate_deployed_page",
                            "notify_evaluation_server", mark>>

(* ------------------------------ actions ------------------------------- *)
\* the record of a step: the handler's response or the task's outcome
\* env of a step that calls no collaborator
NoEnv == [existing |-> "-", generator |-> "-", publisher |-> "-", notifier |-> "-",
          live |-> "-"]

\* run of a step that is not a background task
NoRun == [raised |-> "-"]

\* no method has been called directly
NoCall == [fn |-> "-"]

Last(op, key, response, cleanup, removed, env, raised, run) ==
    [op |-> op, key |-> key, response |-> response, cleanup |-> cleanup,
     removed |-> removed, env |-> env, raised |-> raised, run |-> run]

\* the entries of earlier requests, whose tasks have ended at time 0
OldTracker(keys) == [k \in keys |-> FailedEntry(0, "TypeError")]

Init ==
    /\ request_tracker \in { OldTracker({}), OldTracker(OldKeys) }
    /\ background_tasks = EmptyBag
    /\ now = 0
    /\ ticks = 0
    /\ last = Last("init", <<>>, "-", FALSE, {}, NoEnv, "-", NoRun)
    /\ call = NoCall

\* a duplicate answer that also renews the entry's timestamp
answer_duplicate_Renew(tracker, request_key, t) ==
    [tracker EXCEPT ![request_key].timestamp = t]

\* main.py:163-174, the tracker after a duplicate is answered: both branches
\* return the response and write nothing
answer_duplicate(tracker, request_key, t) == tracker

\* main.py:123-200, POST /api/build
build_and_deploy(request, credentials) ==
    LET request_key == <<request.task, request.round, request.nonce>>
        Answer(response) ==
            /\ last' = Last("build_and_deploy", request_key, response, FALSE, {},
                            NoEnv, "-", NoRun)
            /\ UNCHANGED <<request_tracker, background_tasks, now, ticks>>
        Duplicate(response) ==
            /\ request_tracker' = answer_duplicate(request_tracker, request_key, now)
            /\ last' = Last("build_and_deploy", request_key, response, FALSE, {},
                            NoEnv, "-", NoRun)
            /\ UNCHANGED <<background_tasks, now, ticks>>
    IN  IF credentials # "ok"
        THEN \* main.py:141-154, HTTPException(403)
             Answer("403")
        ELSE IF request_key \in DOMAIN request_tracker
                /\ request_tracker[request_key].status = "processing"
        THEN \* main.py:163-168
             Duplicate("processing")
        ELSE IF request_key \in DOMAIN request_tracker
                /\ request_tracker[request_key].status = "completed"
        THEN \* main.py:169-174
             Duplicate("already_completed")
        ELSE \* main.py:176-200; a failed entry falls through to here
             LET inserted == Store(request_tracker, request_key, ProcessingEntry(now))
                 cleanup  == Cardinality(DOMAIN inserted) % CLEANUP_EVERY = 0
             IN  /\ BagCardinality(background_tasks) < MaxPending
                 /\ request_tracker' =
                        IF cleanup THEN cleanup_old_requests(inserted, now)
                                   ELSE inserted
                 /\ background_tasks' = background_tasks (+)
                        SetToBag({[request |-> request, request_key |-> request_key]})
                 /\ last' = Last("build_and_deploy", request_key, "accepted", cleanup,
                                 IF cleanup THEN KeysToRemove(inserted, now) ELSE {},
                                 NoEnv, "-", NoRun)
                 /\ UNCHANGED <<now, ticks>>

\* main.py:203-438, one scheduled background task runs to its end
ProcessTask(task, env) ==
    /\ BagIn(task, background_tasks)
    /\ LET run == process_task(task.request, env)
       IN  /\ request_tracker' =
                 IF run.raised = "none"
                 THEN mark_completed(request_tracker, task.request_key, now,
                                     run.deployment)
                 ELSE except_handler(request_tracker, task.request_key, now,
                                     run.error)
           /\ last' = Last("process_task", task.request_key, "-", FALSE, {},
                           env, run.raised, run)
    /\ background_tasks' = background_tasks (-) SetToBag({task})
    /\ UNCHANGED <<now, ticks>>

\* the wall clock advances
Tick(d) ==
    /\ ticks < MaxTicks
    /\ now' = now + d
    /\ ticks' = ticks + 1
    /\ last' = Last("tick", <<>>, "-", FALSE, {}, NoEnv, "-", NoRun)
    /\ UNCHANGED <<request_tracker, background_tasks>>

Requests == [task : Tasks, round : Rounds, nonce : Nonces]

Submit == /\ \E request \in Requests, credentials \in Credentials :
                 build_and_deploy(request, credentials)
          /\ UNCHANGED call

Run == /\ \E task \in BagToSet(background_tasks), env \in Env :
              ProcessTask(task, env)
       /\ UNCHANGED call

Clock == /\ \E d \in TickSteps : Tick(d)
         /\ UNCHANGED call

Next == Submit \/ Run \/ Clock

Spec == Init /\ [][Next]_vars

\* the event loop runs every background task it has been handed
\* (BackgroundTasks.add_task, main.py:189-194)
FairSpec == Spec /\ WF_vars(Run)

(* ------------------------------ strings ------------------------------- *)
\* Text is a TLA+ string; Len, SubSeq and \o act on it character by
\* character.  The grave accent cannot be written inside a TLA+ string: it
\* is written ~ throughout (so a Markdown fence is ~~~), and no input uses ~
\* for anything else.

\* s[i:] of Python, 1-based
From(s, i) == SubSeq(s, i, Len(s))

\* s starts with p at position i
MatchAt(s, p, i) == i >= 1 /\ i + Len(p) - 1 <= Len(s) /\ SubSeq(s, i, i + Len(p) - 1) = p

\* p in s
In(p, s) == \E i \in 1..(Len(s) - Len(p) + 1) : MatchAt(s, p, i)

\* s.find(p) from position `from` on; 0 where Python answers -1
Find(s, p, from) ==
    LET hits == { i \in from..(Len(s) - Len(p) + 1) : MatchAt(s, p, i) }
    IN  IF hits = {} THEN 0 ELSE CHOOSE i \in hits : \A j \in hits : i <= j

\* s.rfind(p); 0 where Python answers -1
RFind(s, p) ==
    LET hits == { i \in 1..(Len(s) - Len(p) + 1) : MatchAt(s, p, i) }
    IN  IF hits = {} THEN 0 ELSE CHOOSE i \in hits : \A j \in hits : i >= j

startswith(s, p) == MatchAt(s, p, 1)

endswith(s, p) == MatchAt(s, p, Len(s) - Len(p) + 1)

\* s.replace(old, new): every non-overlapping occurrence, left to right
RECURSIVE str_replace(_, _, _)
str_replace(s, old, new) ==
    LET i == Find(s, old, 1)
    IN  IF i = 0 THEN s
        ELSE SubSeq(s, 1, i - 1) \o new \o str_replace(From(s, i + Len(old)), old, new)

Whitespace == {" ", "\n", "\t", "\r", "\f"}

\* s.strip()
strip(s) ==
    LET ink == { i \in 1..Len(s) : SubSeq(s, i, i) \notin Whitespace }
    IN  IF ink = {} THEN ""
        ELSE SubSeq(s, CHOOSE i \in ink : \A j \in ink : i <= j,
                       CHOOSE i \in ink : \A j \in ink : i >= j)

\* s.split("\n")
RECURSIVE split_lines(_)
split_lines(s) ==
    LET i == Find(s, "\n", 1)
    IN  IF i = 0 THEN <<s>>
        ELSE <<SubSeq(s, 1, i - 1)>> \o split_lines(From(s, i + 1))

\* "\n".join(lines)
RECURSIVE join_lines(_)
join_lines(lines) ==
    IF lines = <<>> THEN ""
    ELSE IF Len(lines) = 1 THEN lines[1]
    ELSE lines[1] \o "\n" \o join_lines(Tail(lines))

UpperCase == "ABCDEFGHIJKLMNOPQRSTUVWXYZ"

LowerCase == "abcdefghijklmnopqrstuvwxyz"

\* one character, lowered
LowerCh(c) ==
    IF \E i \in 1..Len(UpperCase) : SubSeq(UpperCase, i, i) = c
    THEN LET i == CHOOSE i \in 1..Len(UpperCase) : SubSeq(UpperCase, i, i) = c
         IN  SubSeq(LowerCase, i, i)
    ELSE c

\* p in s.lower(), for a pattern p that is already lower case
InLower(p, s) ==
    \E i \in 1..(Len(s) - Len(p) + 1) :
        \A j \in 1..Len(p) : LowerCh(SubSeq(s, i + j - 1, i + j - 1)) = SubSeq(p, j, j)

\* s.lower() of a short text, as text
RECURSIVE lower(_)
lower(s) == IF s = "" THEN "" ELSE LowerCh(SubSeq(s, 1, 1)) \o lower(From(s, 2))

(* ----------------------------- generator ------------------------------ *)
\* The language model is the generator's environment: what it answers is an
\* input.  A response is its text together with what json.loads returns for
\* the slice of the text between its first "{" and its last "}".

ReservedPaths == {"index.html", "LICENSE", "README.md"}

\* sorted() over the paths the model uses (code-point order: capitals first)
SortedPaths == <<"LICENSE", "README.md", "data.csv", "index.html", "script.js", "style.css">>

Dict(items) == [type |-> "dict", items |-> items]

JSONDecodeError == [type |-> "JSONDecodeError"]

EmptyFiles == [p \in {} |-> ""]

IndexY == "<!DOCTYPE html><html>Y</html>"

\* what the generator may answer: JSON with a "files" object, a bare JSON
\* mapping, a "files" that is no object, truncated JSON, fenced blocks, a
\* bare page, an unclosed fence, prose
Responses ==
    { [text |-> "{\"files\": {}}",
       data |-> Dict("files" :> Dict(EmptyFiles))],
      [text |-> "{\"files\": {\"index.html\": \"<html>X</html>\"}}",
       data |-> Dict("files" :> Dict(("index.html" :> "<html>X</html>")))],
      [text |-> "{\"files\": {\"style.css\": \"body{}\"}}",
       data |-> Dict("files" :> Dict(("style.css" :> "body{}")))],
      [text |-> "{\"files\": {\"index.html\": \"<html>X</html>\", \"LICENSE\": \"Apache License 2.0\", \"README.md\": \"# mine\"}}",
       data |-> Dict("files" :> Dict(("index.html" :> "<html>X</html>") @@ ("LICENSE" :> "Apache License 2.0") @@ ("README.md" :> "# mine")))],
      [text |-> "{\"files\": {\"index.html\": \"<p>a\\\\nb</p>\", \"script.js\": \"let s = \\\\\\\"x\\\\\\\";\"}}",
       data |-> Dict("files" :> Dict(("index.html" :> "<p>a\\nb</p>") @@ ("script.js" :> "let s = \\\"x\\\";")))],
      [text |-> "{\"index.html\": \"<html>X</html>\"}",
       data |-> Dict(("index.html" :> "<html>X</html>"))],
      [text |-> "Here you go: {\"files\": [\"index.html\"]}",
       data |-> Dict("files" :> [type |-> "list"])],
      [text |-> "{\"files\": {\"index.html\": ",
       data |-> JSONDecodeError],
      [text |-> "Here:\n~~~html\n<html>X</html>\n~~~\n~~~css\nbody{}\n~~~\n~~~js\nlet a = {};\n~~~",
       data |-> JSONDecodeError],
      [text |-> "Sure! <!doctype HTML><html>Y</html> Enjoy.",
       data |-> JSONDecodeError],
      [text |-> "~~~html\n<html>X</html>",
       data |-> JSONDecodeError],
      [text |-> "Sorry, I cannot help with that.",
       data |-> JSONDecodeError] }

\* request attachments: a name and a URL
Attachments ==
    { <<>>,
      <<[name |-> "data.csv",   url |-> "data:text/csv,a;b"]>>,
      <<[name |-> "index.html", url |-> "data:text/html;base64,PGk+"]>>,
      <<[name |-> "data.csv",   url |-> "https://example.com/data.csv"]>>,
      <<[name |-> "data.csv",   url |-> "data:text/csv"]>> }

TaskIds == {"a.b_c"}

Briefs == {"Build a calculator", "Add dark mode"}

\* datetime.now().year
Years == {"2025"}

\* datetime.utcnow().strftime('%Y-%m-%d %H:%M:%S')
Stamps == {"2025-10-17 10:00:00"}

\* json.loads(json_str), for the slice of the response it is given
json_loads(response) == response.data

\* base64.b64decode, on the encoded texts the attachments use
b64decode(encoded) == CASE encoded = "PGk+" -> "<i>"

\* content.encode('utf-8').decode('unicode_escape') on ASCII text
RECURSIVE unicode_escape(_)
unicode_escape(s) ==
    IF s = "" THEN [raised |-> FALSE, text |-> ""]
    ELSE IF SubSeq(s, 1, 1) # "\\"
         THEN LET rest == unicode_escape(From(s, 2))
              IN  [raised |-> rest.raised, text |-> SubSeq(s, 1, 1) \o rest.text]
    ELSE IF Len(s) = 1 THEN [raised |-> TRUE, text |-> ""]
    ELSE LET c    == SubSeq(s, 2, 2)
             rest == unicode_escape(From(s, 3))
             out  == CASE c = "n"  -> "\n"
                       [] c = "t"  -> "\t"
                       [] c = "r"  -> "\r"
                       [] c = "\"" -> "\""
                       [] c = "'"  -> "'"
                       [] c = "\\" -> "\\"
                       [] OTHER    -> "\\" \o c
         IN  [raised |-> rest.raised, text |-> out \o rest.text]

CodeSuffixes == {".html", ".htm", ".js", ".css", ".json"}

PREVIEW == 500

\* the two passes of _parse_response over one file's content
fix_escapes(filename, content) ==
    LET first == str_replace(str_replace(str_replace(str_replace(str_replace(
                     content, "\\n", "\n"), "\\t", "\t"), "\\r", "\r"), "\\\"", "\""), "\\'", "'")
        test_str == SubSeq(first, 1, IF Len(first) < PREVIEW THEN Len(first) ELSE PREVIEW)
        decoded  == unicode_escape(first)
    IN  IF /\ \E suffix \in CodeSuffixes : endswith(filename, suffix)
           /\ (In("\\n", test_str) \/ In("\\\"", test_str) \/ In("\\t", test_str))
           /\ ~decoded.raised
        THEN decoded.text
        ELSE first

\* re.search(opener + r"(.*?)~~~", text, re.DOTALL).group(1).strip(), for
\* the leftmost of the openers; "no match" is the record [found |-> FALSE]
fenced(text, openers) ==
    LET starts == { i \in 1..Len(text) :
                      \E o \in openers : /\ MatchAt(text, o, i)
                                         /\ Find(text, "~~~", i + Len(o)) # 0 }
    IN  IF starts = {} THEN [found |-> FALSE]
        ELSE LET i == CHOOSE i \in starts : \A j \in starts : i <= j
                 o == CHOOSE o \in openers : /\ MatchAt(text, o, i)
                                             /\ Find(text, "~~~", i + Len(o)) # 0
                 e == Find(text, "~~~", i + Len(o))
             IN  [found |-> TRUE, text |-> strip(SubSeq(text, i + Len(o), e - 1))]

\* re.search(r"<!DOCTYPE html>.*?</html>", text, DOTALL | IGNORECASE)
doctype_page(text) ==
    LET ci(p, i) == /\ i + Len(p) - 1 <= Len(text)
                    /\ \A j \in 1..Len(p) :
                          LowerCh(SubSeq(text, i + j - 1, i + j - 1)) = SubSeq(p, j, j)
        open     == "<!doctype html>"
        close    == "</html>"
        ends(i)  == { e \in (i + Len(open))..Len(text) : ci(close, e) }
        starts   == { i \in 1..Len(text) : ci(open, i) /\ ends(i) # {} }
    IN  IF starts = {} THEN [found |-> FALSE]
        ELSE LET i == CHOOSE i \in starts : \A j \in starts : i <= j
                 e == CHOOSE e \in ends(i) : \A f \in ends(i) : e <= f
             IN  [found |-> TRUE, text |-> SubSeq(text, i, e + Len(close) - 1)]

_extract_code_blocks(text) ==
    LET html == fenced(text, {"~~~html\n"})
        css  == fenced(text, {"~~~css\n"})
        js   == fenced(text, {"~~~javascript\n", "~~~js\n"})
        page == doctype_page(text)
        blocks ==
            (IF html.found THEN "index.html" :> html.text ELSE EmptyFiles) @@
            (IF css.found  THEN "style.css"  :> css.text  ELSE EmptyFiles) @@
            (IF js.found   THEN "script.js"  :> js.text   ELSE EmptyFiles)
    IN  IF DOMAIN blocks # {} THEN blocks
        ELSE IF page.found THEN "index.html" :> page.text
        ELSE EmptyFiles

\* the files one attachment adds: none where the URL is not a data: URL or
\* has no comma (the ValueError is logged)
attachment_file(att) ==
    LET comma == Find(att.url, ",", 1)
        header == SubSeq(att.url, 1, comma - 1)
        encoded == From(att.url, comma + 1)
    IN  IF ~startswith(att.url, "data:") \/ comma = 0 THEN EmptyFiles
        ELSE att.name :> (IF In("base64", header) THEN b64decode(encoded) ELSE encoded)

\* later attachments overwrite earlier ones, and all overwrite parsed files
RECURSIVE save_attachments(_, _)
save_attachments(files, attachments) ==
    IF attachments = <<>> THEN files
    ELSE save_attachments(attachment_file(Head(attachments)) @@ files, Tail(attachments))

_parse_response(response, attachments) ==
    LET text  == response.text
        start == Find(text, "{", 1)
        end   == RFind(text, "}")
        data  == json_loads(response)
        files == IF "files" \in DOMAIN data.items THEN data.items["files"] ELSE data
    IN  IF start = 0 \/ end < start \/ data.type = JSONDecodeError.type
        THEN [raised |-> "none",
              files  |-> save_attachments(_extract_code_blocks(text), attachments)]
        ELSE IF files.type # "dict"
        THEN [raised |-> "AttributeError", files |-> EmptyFiles]
        ELSE [raised |-> "none",
              files  |-> save_attachments(
                            [f \in DOMAIN files.items |-> fix_escapes(f, files.items[f])],
                            attachments)]

_generate_mit_license(year) ==
    "MIT License\n"
    \o "\n"
    \o "Copyright (c) "
    \o year
    \o " Student Project\n"
    \o "\n"
    \o "Permission is hereby granted, free of charge, to any person "
    \o "obtaining a copy\n"
    \o "of this software and associated documentation files (the \"So"
    \o "ftware\"), to deal\n"
    \o "in the Software without restriction, including without limit"
    \o "ation the rights\n"
    \o "to use, copy, modify, merge, publish, distribute, sublicense"
    \o ", and/or sell\n"
    \o "copies of the Software, and to permit persons to whom the So"
    \o "ftware is\n"
    \o "furnished to do so, subject to the following conditions:\n"
    \o "\n"
    \o "The above copyright notice and this permission notice shall "
    \o "be included in all\n"
    \o "copies or substantial portions of the Software.\n"
    \o "\n"
    \o "THE SOFTWARE IS PROVIDED \"AS IS\", WITHOUT WARRANTY OF ANY KI"
    \o "ND, EXPRESS OR\n"
    \o "IMPLIED, INCLUDING BUT NOT LIMITED TO THE WARRANTIES OF MERC"
    \o "HANTABILITY,\n"
    \o "FITNESS FOR A PARTICULAR PURPOSE AND NONINFRINGEMENT. IN NO "
    \o "EVENT SHALL THE\n"
    \o "AUTHORS OR COPYRIGHT HOLDERS BE LIABLE FOR ANY CLAIM, DAMAGE"
    \o "S OR OTHER\n"
    \o "LIABILITY, WHETHER IN AN ACTION OF CONTRACT, TORT OR OTHERWI"
    \o "SE, ARISING FROM,\n"
    \o "OUT OF OR IN CONNECTION WITH THE SOFTWARE OR THE USE OR OTHE"
    \o "R DEALINGS IN THE\n"
    \o "SOFTWARE.\n"

\* the lines of the README's file list: sorted names, README.md left out
file_list(files) ==
    LET names == SelectSeq(SortedPaths, LAMBDA p : p \in DOMAIN files /\ p # "README.md")
    IN  join_lines([i \in 1..Len(names) |-> "- ~" \o names[i] \o "~"])

_generate_readme(brief, task_id, files, stamp) ==
    "# "
    \o task_id
    \o "\n"
    \o "\n"
    \o "## Project Summary\n"
    \o "\n"
    \o brief
    \o "\n"
    \o "\n"
    \o "**Generated:** "
    \o stamp
    \o " UTC\n"
    \o "\n"
    \o "## Files\n"
    \o "\n"
    \o file_list(files)
    \o "\n"
    \o "\n"
    \o "## Setup Instructions\n"
    \o "\n"
    \o "1. Clone this repository:\n"
    \o "   ~~~bash\n"
    \o "   git clone <repository-url>\n"
    \o "   cd "
    \o task_id
    \o "\n"
    \o "   ~~~\n"
    \o "\n"
    \o "2. Open in browser:\n"
    \o "   - Simply open ~index.html~ in your web browser\n"
    \o "   - Or use a local server:\n"
    \o "     ~~~bash\n"
    \o "     python -m http.server 8000\n"
    \o "     # Visit http://localhost:8000\n"
    \o "     ~~~\n"
    \o "\n"
    \o "## Usage\n"
    \o "\n"
    \o "Open the application in a modern web browser. The app will a"
    \o "utomatically handle the requirements as specified in the pro"
    \o "ject brief.\n"
    \o "\n"
    \o "## Code Explanation\n"
    \o "\n"
    \o "### Main Components\n"
    \o "\n"
    \o "- **index.html**: Main application interface and structure\n"
    \o "- **style.css**: Styling and layout (if separate file)\n"
    \o "- **script.js**: Application logic and interactivity (if sep"
    \o "arate file)\n"
    \o "\n"
    \o "The application is built using standard web technologies (HT"
    \o "ML5, CSS3, JavaScript) and may include external libraries lo"
    \o "aded via CDN for additional functionality.\n"
    \o "\n"
    \o "### Key Features\n"
    \o "\n"
    \o "The application implements all requirements specified in the"
    \o " brief, with proper error handling and user-friendly interfa"
    \o "ce design.\n"
    \o "\n"
    \o "## Technical Details\n"
    \o "\n"
    \o "- Pure client-side application (no backend required)\n"
    \o "- External libraries loaded from CDN (no build process neede"
    \o "d)\n"
    \o "- Responsive design for various screen sizes\n"
    \o "- Modern browser required (Chrome, Firefox, Safari, Edge)\n"
    \o "\n"
    \o "## License\n"
    \o "\n"
    \o "This project is licensed under the MIT License - see the LIC"
    \o "ENSE file for details.\n"
    \o "\n"
    \o "## Deployment\n"
    \o "\n"
    \o "This application is deployed on GitHub Pages at the reposito"
    \o "ry's Pages URL.\n"

_create_new_app_AsParsed(brief, attachments, task_id, response, year, stamp) ==
    _parse_response(response, attachments)

\* a synthesis that adds the license and the summary only where the parsed
\* response has none
_create_new_app_IfAbsent(brief, attachments, task_id, response, year, stamp) ==
    LET parsed       == _parse_response(response, attachments)
        with_license == parsed.files @@ ("LICENSE" :> _generate_mit_license(year))
        files        == with_license
                        @@ ("README.md" :> _generate_readme(brief, task_id, with_license, stamp))
    IN  IF parsed.raised # "none" THEN parsed
        ELSE [raised |-> "none", files |-> files]

_create_new_app(brief, attachments, task_id, response, year, stamp) ==
    LET parsed       == _parse_response(response, attachments)
        with_license == ("LICENSE" :> _generate_mit_license(year)) @@ parsed.files
        files        == ("README.md" :> _generate_readme(brief, task_id, with_license, stamp))
                        @@ with_license
    IN  IF parsed.raised # "none" THEN parsed
        ELSE [raised |-> "none", files |-> files]

\* what the existing repository may hold (never empty: generate_app calls
\* _update_existing_app only with files)
ExistingFileSets ==
    { "index.html" :> IndexY,
      ("index.html" :> IndexY) @@ ("LICENSE" :> _generate_mit_license("2024"))
                               @@ ("README.md" :> "# a.b_c\n\nold summary"),
      ("index.html" :> IndexY) @@ ("style.css" :> "p{}") @@ ("LICENSE" :> "Copyright, all rights reserved") }

_update_existing_app_ExistingWins(update_brief, attachments, task_id, existing_files, response, year, stamp) ==
    LET parsed        == _parse_response(response, attachments)
        updated_files == parsed.files
        merged        == existing_files @@ updated_files
        original      == IF "README.md" \in DOMAIN existing_files
                         THEN existing_files["README.md"] ELSE "N/A"
        with_readme   == ("README.md" :> _generate_readme(
                              "Original: " \o original \o "\n\nUpdate: " \o update_brief,
                              task_id, merged, stamp)) @@ merged
        final_files   == IF "LICENSE" \in DOMAIN with_readme THEN with_readme
                         ELSE ("LICENSE" :> _generate_mit_license(year)) @@ with_readme
    IN  IF parsed.raised # "none"
        THEN [raised |-> parsed.raised, updated_files |-> EmptyFiles, files |-> EmptyFiles]
        ELSE [raised |-> "none", updated_files |-> updated_files, files |-> final_files]

_update_existing_app(update_brief, attachments, task_id, existing_files, response, year, stamp) ==
    LET parsed        == _parse_response(response, attachments)
        updated_files == parsed.files
        merged        == updated_files @@ existing_files
        original      == IF "README.md" \in DOMAIN existing_files
                         THEN existing_files["README.md"] ELSE "N/A"
        with_readme   == ("README.md" :> _generate_readme(
                              "Original: " \o original \o "\n\nUpdate: " \o update_brief,
                              task_id, merged, stamp)) @@ merged
        final_files   == IF "LICENSE" \in DOMAIN with_readme THEN with_readme
                         ELSE ("LICENSE" :> _generate_mit_license(year)) @@ with_readme
    IN  IF parsed.raised # "none"
        THEN [raised |-> parsed.raised, updated_files |-> EmptyFiles, files |-> EmptyFiles]
        ELSE [raised |-> "none", updated_files |-> updated_files, files |-> final_files]

\* what the model answers to a README fix prompt: an exception of the
\* client, or text
ReadmeAnswers ==
    { [raised |-> TRUE],
      [raised |-> FALSE, content |-> "  # a.b_c\n\n## Summary\n\nbetter\n"],
      [raised |-> FALSE, content |-> "~~~markdown\n# a.b_c\n\n## Summary\n~~~"] }

\* what the model answers to a page fix prompt
HtmlAnswers ==
    { [raised |-> TRUE],
      [raised |-> FALSE, content |-> "~~~html\n<html><div id=\"result\"></div></html>\n~~~\nDone." ] }

\* lines[1:-1] if lines[-1].startswith("~~~") else lines[1:], joined
drop_fence(text) ==
    LET lines == split_lines(text)
    IN  join_lines(IF startswith(lines[Len(lines)], "~~~")
                   THEN SubSeq(lines, 2, Len(lines) - 1)
                   ELSE SubSeq(lines, 2, Len(lines)))

\* a README fix that gives up the content when the client raises
_fix_readme_Blank(current_readme, answer) ==
    IF answer.raised THEN ""
    ELSE LET fixed_readme == strip(answer.content)
         IN  IF startswith(fixed_readme, "~~~") THEN drop_fence(fixed_readme) ELSE fixed_readme

_fix_readme(current_readme, answer) ==
    IF answer.raised THEN current_readme
    ELSE LET fixed_readme == strip(answer.content)
         IN  IF startswith(fixed_readme, "~~~") THEN drop_fence(fixed_readme) ELSE fixed_readme

_fix_html(current_html, answer) ==
    IF answer.raised THEN current_html
    ELSE LET fixed_html == strip(answer.content)
             match      == fenced(fixed_html, {"~~~html\n"})
         IN  IF In("~~~html", fixed_html)
             THEN (IF match.found THEN match.text ELSE fixed_html)
             ELSE IF startswith(fixed_html, "~~~") THEN drop_fence(fixed_html)
             ELSE fixed_html

\* the file each failed check is grouped under
fix_group(failed_check) ==
    LET check_lower == lower(failed_check.check)
    IN  IF In("readme", check_lower) THEN "README.md"
        ELSE IF In("element", check_lower) \/ In("id=", check_lower) \/ In("bootstrap", check_lower)
        THEN "index.html"
        ELSE "other"

fix_validation_failures_BothFiles(files, failed_checks, readme_answer, html_answer) ==
    LET needs(group) == \E i \in 1..Len(failed_checks) : fix_group(failed_checks[i]) = group
        readme == IF "README.md" \in DOMAIN files THEN files["README.md"] ELSE ""
        html   == IF "index.html" \in DOMAIN files THEN files["index.html"] ELSE ""
    IN  IF failed_checks = <<>> THEN files
        ELSE (IF needs("README.md") \/ needs("index.html")
              THEN ("README.md" :> _fix_readme(readme, readme_answer))
                   @@ ("index.html" :> _fix_html(html, html_answer))
              ELSE EmptyFiles)
             @@ files

fix_validation_failures(files, failed_checks, readme_answer, html_answer) ==
    LET needs(group) == \E i \in 1..Len(failed_checks) : fix_group(failed_checks[i]) = group
        readme == IF "README.md" \in DOMAIN files THEN files["README.md"] ELSE ""
        html   == IF "index.html" \in DOMAIN files THEN files["index.html"] ELSE ""
    IN  IF failed_checks = <<>> THEN files
        ELSE (IF needs("README.md")
              THEN "README.md" :> _fix_readme(readme, readme_answer) ELSE EmptyFiles)
             @@ (IF needs("index.html")
                 THEN "index.html" :> _fix_html(html, html_answer) ELSE EmptyFiles)
             @@ files

(* ----------------------------- validator ------------------------------ *)
\* A check result's "passed" is Python's True, False or None, written as
\* the strings below.

PyTrue == "True"

PyFalse == "False"

PyNone == "None"

Result(check, passed, message) == [check |-> check, passed |-> passed, message |-> message]

Digits == "0123456789"

IsLetter(c) == \E i \in 1..Len(LowerCase) : c = SubSeq(LowerCase, i, i) \/ c = SubSeq(UpperCase, i, i)

\* \w of the regular expressions
IsWord(c) == IsLetter(c) \/ c = "_" \/ \E i \in 1..Len(Digits) : c = SubSeq(Digits, i, i)

\* the character before position i is not a word character (\b before a word)
BoundaryBefore(s, i) == i = 1 \/ ~IsWord(SubSeq(s, i - 1, i - 1))

\* first position from i on that holds no whitespace (\s*), Len(s) + 1 if none
skip_ws(s, i) ==
    LET stops == { j \in i..Len(s) : SubSeq(s, j, j) \notin Whitespace }
    IN  IF stops = {} THEN Len(s) + 1 ELSE CHOOSE j \in stops : \A k \in stops : j <= k

\* first position from i on that holds no word character (\w*)
skip_word(s, i) ==
    LET stops == { j \in i..Len(s) : ~IsWord(SubSeq(s, j, j)) }
    IN  IF stops = {} THEN Len(s) + 1 ELSE CHOOSE j \in stops : \A k \in stops : j <= k

\* bool(re.search(r'^#+\s', readme, re.MULTILINE))
has_headings(readme) ==
    \E i \in 1..Len(readme) :
        /\ i = 1 \/ SubSeq(readme, i - 1, i - 1) = "\n"
        /\ SubSeq(readme, i, i) = "#"
        /\ \E j \in (i + 1)..Len(readme) :
              /\ SubSeq(readme, j, j) \in Whitespace
              /\ \A k \in i..(j - 1) : SubSeq(readme, k, k) = "#"

README_MIN == 200

Quotes == {"'", "\""}

\* re.search(r"id=['\"]([^'\"]+)['\"]", check): the id of the leftmost
\* match, or [found |-> FALSE]
id_match(check) ==
    LET close(i) == { j \in (i + 5)..Len(check) : SubSeq(check, j, j) \in Quotes }
        first(i) == CHOOSE j \in close(i) : \A k \in close(i) : j <= k
        starts   == { i \in 1..Len(check) :
                        /\ MatchAt(check, "id=", i)
                        /\ i + 3 <= Len(check)
                        /\ SubSeq(check, i + 3, i + 3) \in Quotes
                        /\ i + 4 <= Len(check)
                        /\ SubSeq(check, i + 4, i + 4) \notin Quotes
                        /\ close(i) # {} }
    IN  IF starts = {} THEN [found |-> FALSE]
        ELSE LET i == CHOOSE i \in starts : \A j \in starts : i <= j
             IN  [found |-> TRUE, id |-> SubSeq(check, i + 4, first(i) - 1)]

\* BeautifulSoup(html, "html.parser").find(id=required_id), on pages whose
\* attributes are quoted: an attribute id with exactly that value
soup_find(html, required_id) ==
    \E q \in Quotes : In(" id=" \o q \o required_id \o q, html)

\* re.search(rf'id\s*=\s*["\']({re.escape(required_id)})["\']', html, re.IGNORECASE)
id_pattern(html, required_id) ==
    \E i \in 1..(Len(html) - 1) :
        /\ InLower("id", SubSeq(html, i, i + 1))
        /\ LET eq == skip_ws(html, i + 2)
               q  == skip_ws(html, eq + 1)
               n  == Len(required_id)
           IN  /\ q + n + 1 <= Len(html)
               /\ SubSeq(html, eq, eq) = "="
               /\ SubSeq(html, q, q) \in Quotes
               /\ lower(SubSeq(html, q + 1, q + n)) = lower(required_id)
               /\ SubSeq(html, q + n + 1, q + n + 1) \in Quotes

bootstrap_cdns ==
    << "cdn.jsdelivr.net/npm/bootstrap",
       "stackpath.bootstrapcdn.com/bootstrap",
       "maxcdn.bootstrapcdn.com/bootstrap",
       "getbootstrap.com",
       "bootstrap.min.css",
       "bootstrap.min.js" >>

\* re.search(r'\b' + word + r'\s+\w+\s*' + tail, code), tail being "(" or "=\s*("
declares(code, word, assigned) ==
    \E i \in 1..Len(code) :
        /\ BoundaryBefore(code, i)
        /\ MatchAt(code, word, i)
        /\ LET name == skip_ws(code, i + Len(word))
               after == skip_ws(code, skip_word(code, name))
               paren == IF assigned THEN skip_ws(code, after + 1) ELSE after
           IN  /\ name > i + Len(word)
               /\ skip_word(code, name) > name
               /\ paren <= Len(code)
               /\ assigned => SubSeq(code, after, after) = "="
               /\ SubSeq(code, paren, paren) = "("

operators == <<" + ", " - ", " * ", " / ", "+=", "-=", "*=", "/=">>

calc_keywords == <<"calculate", "compute", "result", "sum", "total">>

computation_words == <<"perform", "operation", "calculat", "arithmetic">>

stopwords == {"page", "element", "have", "must", "should", "repo", "file"}

KEYWORD_MIN == 4

\* re.findall(r'\b[a-zA-Z]{4,}\b', check_lower) minus the stop words: each
\* keyword occurrence, as the pair of its first and last position
keywords(check_lower) ==
    { w \in (1..Len(check_lower)) \X (1..Len(check_lower)) :
        /\ w[2] - w[1] + 1 >= KEYWORD_MIN
        /\ \A k \in w[1]..w[2] : IsLetter(SubSeq(check_lower, k, k))
        /\ BoundaryBefore(check_lower, w[1])
        /\ w[2] = Len(check_lower) \/ ~IsWord(SubSeq(check_lower, w[2] + 1, w[2] + 1))
        /\ SubSeq(check_lower, w[1], w[2]) \notin stopwords }

\* Check 1 applies
is_license_check(check_lower) ==
    In("mit license", check_lower) \/ (In("mit", check_lower) /\ In("license", check_lower))

\* Check 2 applies
is_readme_check(check_lower) ==
    In("readme", check_lower) /\ (In("professional", check_lower) \/ In("complete", check_lower))

\* Check 3 applies
is_element_check(check_lower) == In("element", check_lower) /\ In("id=", check_lower)

\* Check 4 applies
is_bootstrap_check(check_lower) ==
    In("bootstrap", check_lower) /\ (In("cdn", check_lower) \/ In("load", check_lower))

\* Check 5 applies
is_computation_check(check_lower) ==
    \E i \in 1..Len(computation_words) : In(computation_words[i], check_lower)

license_check(files, check) ==
    IF "LICENSE" \notin DOMAIN files
    THEN Result(check, PyFalse, "LICENSE file missing")
    ELSE IF InLower("mit", files["LICENSE"])
    THEN Result(check, PyTrue, "MIT License found")
    ELSE Result(check, PyFalse, "LICENSE exists but does not appear to be MIT")

readme_check(files, check) ==
    IF "README.md" \notin DOMAIN files
    THEN Result(check, PyFalse, "README.md missing")
    ELSE LET readme == files["README.md"]
             has_content  == Len(readme) > README_MIN
             has_sections == In("##", readme)
             chars == ToString(Len(readme)) \o " chars"
             issues == (IF has_headings(readme) THEN <<>> ELSE <<"no headings">>)
                       \o (IF has_content THEN <<>> ELSE <<"too short (" \o chars \o ")">>)
                       \o (IF has_sections THEN <<>> ELSE <<"no sections">>)
         IN  IF has_headings(readme) /\ has_content /\ has_sections
             THEN Result(check, PyTrue, "README appears professional (" \o chars \o ", has headings)")
             ELSE Result(check, PyFalse, "README quality issues: " \o
                         (IF Len(issues) = 1 THEN issues[1]
                          ELSE IF Len(issues) = 2 THEN issues[1] \o ", " \o issues[2]
                          ELSE issues[1] \o ", " \o issues[2] \o ", " \o issues[3]))

\* an element rule that answers unknown when there is no root page
element_check_UnknownWithoutPage(files, check, has_bs4) ==
    LET m == id_match(check)
    IN  IF ~m.found
        THEN Result(check, PyNone, "Could not extract ID from check string")
        ELSE IF "index.html" \notin DOMAIN files
        THEN Result(check, PyNone, "index.html missing, cannot check for element")
        ELSE IF has_bs4 /\ soup_find(files["index.html"], m.id)
        THEN Result(check, PyTrue, "Element with id='" \o m.id \o "' found (tag)")
        ELSE IF id_pattern(files["index.html"], m.id)
        THEN Result(check, PyTrue, "Element with id='" \o m.id \o "' found (regex match)")
        ELSE Result(check, PyFalse, "Element with id='" \o m.id \o "' NOT found in HTML")

element_check(files, check, has_bs4) ==
    LET m == id_match(check)
    IN  IF ~m.found
        THEN Result(check, PyNone, "Could not extract ID from check string")
        ELSE IF "index.html" \notin DOMAIN files
        THEN Result(check, PyFalse, "index.html missing, cannot check for element")
        ELSE IF has_bs4 /\ soup_find(files["index.html"], m.id)
        THEN Result(check, PyTrue, "Element with id='" \o m.id \o "' found (tag)")
        ELSE IF id_pattern(files["index.html"], m.id)
        THEN Result(check, PyTrue, "Element with id='" \o m.id \o "' found (regex match)")
        ELSE Result(check, PyFalse, "Element with id='" \o m.id \o "' NOT found in HTML")

bootstrap_check(files, check, check_lower) ==
    IF "index.html" \notin DOMAIN files
    THEN Result(check, PyFalse, "index.html missing")
    ELSE LET html == files["index.html"]
             found_cdn == \E i \in 1..Len(bootstrap_cdns) : In(bootstrap_cdns[i], html)
         IN  IF ~found_cdn
             THEN Result(check, PyFalse, "No Bootstrap CDN link found in HTML")
             ELSE IF ~(In("5", check_lower) \/ In("bootstrap 5", check_lower))
             THEN Result(check, PyTrue, "Bootstrap CDN link found")
             ELSE IF In("/5.", html) \/ In("bootstrap@5", html)
             THEN Result(check, PyTrue, "Bootstrap 5 CDN link found")
             ELSE Result(check, PyFalse, "Bootstrap found but version may not be 5")

computation_check(files, check) ==
    LET code_to_check ==
            (IF "index.html" \in DOMAIN files THEN files["index.html"] ELSE "")
            \o (IF "script.js" \in DOMAIN files THEN "\n" \o files["script.js"] ELSE "")
        has_functions == \/ declares(code_to_check, "function", FALSE)
                         \/ In("=>", code_to_check)
                         \/ declares(code_to_check, "const", TRUE)
        has_operators == \E i \in 1..Len(operators) : In(operators[i], code_to_check)
        has_calc_keywords == \E i \in 1..Len(calc_keywords) : InLower(calc_keywords[i], code_to_check)
    IN  IF has_functions /\ has_operators
        THEN Result(check, PyTrue, "Code contains functions and arithmetic operations")
        ELSE IF has_operators /\ has_calc_keywords
        THEN Result(check, PyTrue, "Code contains arithmetic operations and calculation logic")
        ELSE Result(check, PyFalse, "Code may not perform operations: " \o
                    (IF ~has_functions /\ ~has_operators THEN "no functions, no arithmetic operators"
                     ELSE IF ~has_functions THEN "no functions"
                     ELSE "no arithmetic operators"))

generic_check_Optimistic(files, check, check_lower) ==
    LET kws   == keywords(check_lower)
        found == { w \in kws : InLower(SubSeq(check_lower, w[1], w[2]), files["index.html"]) }
    IN  IF "index.html" \in DOMAIN files /\ kws # {} /\ 2 * Cardinality(found) >= Cardinality(kws)
        THEN Result(check, PyTrue, "Some keywords found, but cannot fully validate programmatically")
        ELSE Result(check, PyNone, "Cannot validate this check programmatically (manual review needed)")

\* Check 6, the fallback
generic_check(files, check, check_lower) ==
    LET kws   == keywords(check_lower)
        found == { w \in kws : InLower(SubSeq(check_lower, w[1], w[2]), files["index.html"]) }
    IN  IF "index.html" \in DOMAIN files /\ kws # {} /\ 2 * Cardinality(found) >= Cardinality(kws)
        THEN Result(check, PyNone, "Some keywords found, but cannot fully validate programmatically")
        ELSE Result(check, PyNone, "Cannot validate this check programmatically (manual review needed)")

\* the rules of Check 1 and Check 2 tried in the other order
_validate_single_check_ReadmeFirst(files, check, has_bs4) ==
    LET check_lower == lower(check)
    IN  IF is_readme_check(check_lower)           THEN readme_check(files, check)
        ELSE IF is_license_check(check_lower)     THEN license_check(files, check)
        ELSE IF is_element_check(check_lower)     THEN element_check(files, check, has_bs4)
        ELSE IF is_bootstrap_check(check_lower)   THEN bootstrap_check(files, check, check_lower)
        ELSE IF is_computation_check(check_lower) THEN computation_check(files, check)
        ELSE generic_check(files, check, check_lower)

\* validator.py:369-628, the rules tried in order, the first that applies
\* returns
_validate_single_check(files, check, has_bs4) ==
    LET check_lower == lower(check)
    IN  IF is_license_check(check_lower)          THEN license_check(files, check)
        ELSE IF is_readme_check(check_lower)      THEN readme_check(files, check)
        ELSE IF is_element_check(check_lower)     THEN element_check(files, check, has_bs4)
        ELSE IF is_bootstrap_check(check_lower)   THEN bootstrap_check(files, check, check_lower)
        ELSE IF is_computation_check(check_lower) THEN computation_check(files, check)
        ELSE generic_check(files, check, check_lower)

\* sum(1 for r in results if r["passed"] == value)
count(results, value) == Cardinality({ i \in 1..Len(results) : results[i].passed = value })

validate_against_checks_IgnoreUnknown(files, checks, has_bs4) ==
    LET results == [i \in 1..Len(checks) |-> _validate_single_check(files, checks[i], has_bs4)]
    IN  [ all_passed    |-> count(results, PyFalse) = 0,
          passed_count  |-> count(results, PyTrue),
          failed_count  |-> count(results, PyFalse),
          unknown_count |-> count(results, PyNone),
          total_checks  |-> Len(checks),
          results       |-> results ]

validate_against_checks(files, checks, has_bs4) ==
    LET results == [i \in 1..Len(checks) |-> _validate_single_check(files, checks[i], has_bs4)]
        failed_count  == count(results, PyFalse)
        unknown_count == count(results, PyNone)
    IN  [ all_passed    |-> failed_count = 0 /\ unknown_count = 0,
          passed_count  |-> count(results, PyTrue),
          failed_count  |-> failed_count,
          unknown_count |-> unknown_count,
          total_checks  |-> Len(checks),
          results       |-> results ]

(* ------------------------- validator's inputs ------------------------- *)
PageV5 ==
    "<link href=\"https://cdn.jsdelivr.net/npm/bootstrap@5.3.0/dist/css/bootstrap.min.css\""
    \o " rel=\"stylesheet\"><div id=\"result\"></div>"

PageV4 ==
    "<link href=\"https://stackpath.bootstrapcdn.com/bootstrap/4.5.2/css/bootstrap.min.css\""
    \o " rel=\"stylesheet\">"

PageV4Icons ==
    PageV4 \o "<link href=\"https://cdnjs.cloudflare.com/ajax/libs/font-awesome/5.15.4/css/all.min.css\""
    \o " rel=\"stylesheet\">"

PageCalc == "<div ID = 'Result'></div><script>function add(a, b) { return a + b; }</script>"

PagePlain == "<h1>Sales</h1><p>Total sales by region</p>"

Pages == {PageV5, PageV4, PageV4Icons, PageCalc, PagePlain}

ShortReadme == "# Calculator\n\nSimple calculator app."

ValidatorFileSets ==
    { "index.html" :> page : page \in Pages }
    \cup
    { EmptyFiles,
      "LICENSE" :> "Apache License 2.0",
      ("script.js" :> "const add = (a, b) => a + b;") @@ ("LICENSE" :> _generate_mit_license("2025")),
      ("index.html" :> PageV5) @@ ("LICENSE" :> _generate_mit_license("2025"))
                               @@ ("README.md" :> ShortReadme),
      ("index.html" :> PageV5) @@ ("LICENSE" :> _generate_mit_license("2025")),
      ("index.html" :> PageCalc) @@ ("LICENSE" :> _generate_mit_license("2025"))
          @@ ("README.md" :> _generate_readme("Build a calculator", "a.b_c",
                                              "index.html" :> PageCalc, "2025-10-17 10:00:00")) }

CheckTexts ==
    { "Repo has MIT license",
      "README.md is professional and complete",
      "Page has element with id='result'",
      "Page has an element with id=result",
      "Page loads Bootstrap 5 from CDN",
      "Page loads Bootstrap from CDN",
      "App performs arithmetic operations",
      "README mentions the MIT license",
      "Page displays the total sales",
      "Title is shown",
      "UI ok",
      \* texts that satisfy the conditions of two rules
      "README is complete and names the MIT license",
      "README.md is complete and lists element id='result'",
      "Page loads Bootstrap from CDN into element with id='result'",
      "Bootstrap CDN page performs the calculation" }

CheckLists ==
    { <<>>,
      <<"Repo has MIT license", "README.md is professional and complete",
        "Page has element with id='result'", "Page loads Bootstrap 5 from CDN">>,
      <<"README.md is professional and complete">>,
      <<"Repo has MIT license", "Page displays the total sales">>,
      <<"Page loads Bootstrap 5 from CDN", "Page loads Bootstrap 5 from CDN">>,
      <<"Title is shown", "Page has an element with id=result">>,
      <<"README mentions the MIT license">> }

(* ---------------------- calls of single methods ----------------------- *)
\* One method is called, once, on arguments drawn from the sets above;
\* `call` keeps the arguments and the answer.  The tracker is not involved
\* and stays empty.

InitCalls == Init /\ DOMAIN request_tracker = {}

CreateNewApp(brief, attachments, task_id, response, year, stamp) ==
    /\ call' = [ fn          |-> "_create_new_app",
                 attachments |-> attachments,
                 response    |-> response,
                 result      |-> _create_new_app(brief, attachments, task_id, response, year, stamp) ]
    /\ UNCHANGED <<request_tracker, background_tasks, now, ticks, last>>

UpdateExistingApp(update_brief, attachments, task_id, existing_files, response, year, stamp) ==
    /\ call' = [ fn             |-> "_update_existing_app",
                 update_brief   |-> update_brief,
                 existing_files |-> existing_files,
                 response       |-> response,
                 result         |-> _update_existing_app(update_brief, attachments, task_id,
                                                         existing_files, response, year, stamp) ]
    /\ UNCHANGED <<request_tracker, background_tasks, now, ticks, last>>

\* the block with the re-validation run whatever the fix returned
targeted_fixes_AlwaysRevalidate(files, fixed_files) ==
    [files |-> fixed_files, revalidations |-> 1]

\* main.py:314-336, after fix_validation_failures returned: the files the
\* pipeline goes on with and the number of times validate_against_checks is
\* called again
targeted_fixes(files, fixed_files) ==
    IF fixed_files # files
    THEN [files |-> fixed_files, revalidations |-> 1]
    ELSE [files |-> files, revalidations |-> 0]

\* main.py's remediation step: evaluate the checks, and if any failed hand
\* the failed results to fix_validation_failures
TargetedFix(files, checks, has_bs4, readme_answer, html_answer) ==
    LET checks_validation == validate_against_checks(files, checks, has_bs4)
        results       == checks_validation.results
        failed_checks == SelectSeq(results, LAMBDA r : r.passed = PyFalse)
        fixed_files   == fix_validation_failures(files, failed_checks,
                                                 readme_answer, html_answer)
    IN  /\ checks_validation.failed_count > 0
        /\ call' = [ fn            |-> "fix_validation_failures",
                     files         |-> files,
                     failed_checks |-> failed_checks,
                     answered      |-> ~readme_answer.raised,
                     html_answered |-> ~html_answer.raised,
                     fixed_files   |-> fixed_files,
                     after         |-> targeted_fixes(files, fixed_files) ]
        /\ UNCHANGED <<request_tracker, background_tasks, now, ticks, last>>

ValidateSingleCheck(files, check, has_bs4) ==
    /\ call' = [ fn     |-> "_validate_single_check",
                 files  |-> files,
                 check  |-> check,
                 result |-> _validate_single_check(files, check, has_bs4) ]
    /\ UNCHANGED <<request_tracker, background_tasks, now, ticks, last>>

ValidateAgainstChecks(files, checks, has_bs4) ==
    /\ call' = [ fn     |-> "validate_against_checks",
                 files  |-> files,
                 checks |-> checks,
                 result |-> validate_against_checks(files, checks, has_bs4) ]
    /\ UNCHANGED <<request_tracker, background_tasks, now, ticks, last>>

Create == call = NoCall /\ \E brief \in Briefs, attachments \in Attachments, task_id \in TaskIds,
             response \in Responses, year \in Years, stamp \in Stamps :
              CreateNewApp(brief, attachments, task_id, response, year, stamp)

Update == call = NoCall /\ \E update_brief \in Briefs, attachments \in Attachments, task_id \in TaskIds,
             existing_files \in ExistingFileSets, response \in Responses,
             year \in Years, stamp \in Stamps :
              UpdateExistingApp(update_brief, attachments, task_id, existing_files,
                                response, year, stamp)

Fix == call = NoCall /\ \E files \in ValidatorFileSets, checks \in CheckLists, has_bs4 \in BOOLEAN,
          readme_answer \in ReadmeAnswers, html_answer \in HtmlAnswers :
           TargetedFix(files, checks, has_bs4, readme_answer, html_answer)

\* round-1 synthesis, called on every input
SpecCreate == InitCalls /\ [][Create]_vars

\* the merge of round 2 and later, called on every input
SpecUpdate == InitCalls /\ [][Update]_vars

\* remediation, called on every input on which a check fails
SpecFix == InitCalls /\ [][Fix]_vars

Evaluate == call = NoCall /\ \E files \in ValidatorFileSets, check \in CheckTexts, has_bs4 \in BOOLEAN :
               ValidateSingleCheck(files, check, has_bs4)

Report == call = NoCall /\ \E files \in ValidatorFileSets, checks \in CheckLists, has_bs4 \in BOOLEAN :
             ValidateAgainstChecks(files, checks, has_bs4)

NextVal == Evaluate \/ Report

\* the validator's methods, called on every input
SpecVal == InitCalls /\ [][NextVal]_vars

(* ---------------------------- vocabulary ------------------------------ *)
\* the background task that an accepted request with this key schedules
TaskOf(k) ==
    [request |-> [task |-> k[1], round |-> k[2], nonce |-> k[3]], request_key |-> k]

\* number of background tasks of identity k that are scheduled and not ended
Running(k) == CopiesIn(TaskOf(k), background_tasks)

\* this step is the handler answering a request of identity k (credentials ok)
SubmitStep(k) ==
    /\ last'.op = "build_and_deploy"
    /\ last'.key = k
    /\ last'.response # "403"

\* this step is a background task of identity k running to its end
TaskEnds(k) == Running(k)' < Running(k)

\* this step is a handler call that ran the sweep
SweepStep == last'.op = "build_and_deploy" /\ last'.cleanup

Has(tracker, k, status) == k \in DOMAIN tracker /\ tracker[k].status = status

\* the collaborators behave so that the pipeline is meant to end in Completed
MeantToComplete(env) ==
    /\ env.generator = "ok"
    /\ env.publisher = "ok"
    /\ env.notifier \in {"ok", "fail"}

(* ------------------------------- claims ------------------------------- *)

\* C1: a request whose identity has a background task that has not yet
\* resolved the entry is answered "processing" (the first call, which
\* scheduled that task, was answered "accepted").
C1_SecondIsDuplicateProcessing ==
    [][\A k \in Keys :
          (SubmitStep(k) /\ Running(k) > 0) => last'.response = "processing"]_vars

\* C2: a request whose identity has a Failed entry is answered as a
\* duplicate (not accepted) and the entry stays Failed.
C2_FailedStaysFailed ==
    [][\A k \in Keys :
          (SubmitStep(k) /\ Has(request_tracker, k, "failed"))
              => /\ last'.response # "accepted"
                 /\ Has(request_tracker', k, "failed")]_vars

\* C3: once the pipeline of an identity has ended with every collaborator
\* doing its part (the run that marks the entry Completed), the next request
\* with that identity is answered "already_completed" and the entry is
\* Completed, not Processing.
C3_CompletedStaysCompleted ==
    [][\A k \in Keys :
          (/\ last.op = "process_task"
           /\ last.key = k
           /\ MeantToComplete(last.env)
           /\ SubmitStep(k))
              => /\ last'.response = "already_completed"
                 /\ Has(request_tracker', k, "completed")]_vars

\* C4: an entry that is Completed or Failed keeps its status for as long as
\* it is in the tracker.
C4_TerminalIsFinal ==
    [][\A k \in DOMAIN request_tracker \cap DOMAIN request_tracker' :
          request_tracker[k].status \in {"completed", "failed"}
              => request_tracker'[k].status = request_tracker[k].status]_vars

\* C5: at most one background task per identity is scheduled or running.
C5_OnePipelinePerIdentity ==
    \A k \in Keys : Running(k) <= 1

\* C6: a sweep at time now removes exactly the entries older than 15 minutes,
\* leaves every other entry as it was, and a second sweep at the same now
\* would remove nothing.
C6_SweepExact ==
    [][SweepStep =>
          LET inserted == Store(request_tracker, last'.key, ProcessingEntry(now))
              old == { k \in DOMAIN inserted : now - inserted[k].timestamp > 15 * 60 }
          IN  /\ DOMAIN request_tracker' = DOMAIN inserted \ old
              /\ last'.removed = old
              /\ \A k \in DOMAIN request_tracker' : request_tracker'[k] = inserted[k]
              /\ cleanup_old_requests(request_tracker', now) = request_tracker'
       ]_vars

\* C6 witness: a sweep has removed entries and kept one that is exactly 15
\* minutes old.
C6_Witness ==
    /\ last.op = "build_and_deploy"
    /\ last.cleanup
    /\ last.removed # {}
    /\ \E k \in DOMAIN request_tracker : now - request_tracker[k].timestamp = 15 * 60

\* C7: a sweep never removes the entry of an identity whose background task
\* has not ended.
C7_SweepSparesInFlight ==
    [][\A k \in Keys :
          (SweepStep /\ k \in DOMAIN request_tracker /\ Running(k) > 0)
              => k \in DOMAIN request_tracker']_vars

\* C8: a background task that ends while its identity's entry is absent or
\* not Processing leaves the tracker unchanged.
C8_TerminationIsGuarded ==
    [][\A k \in Keys :
          (TaskEnds(k) /\ ~Has(request_tracker, k, "processing"))
              => request_tracker' = request_tracker]_vars

\* C9: a background task that ends with an exception leaves its identity's
\* entry Failed, and the task is gone: nothing schedules it again.
C9_ExceptionMarksFailed ==
    [][\A k \in Keys :
          (TaskEnds(k) /\ last'.raised # "none")
              => /\ Has(request_tracker', k, "failed")
                 /\ request_tracker'[k].timestamp = now
                 /\ background_tasks' = background_tasks (-) SetToBag({TaskOf(k)})
       ]_vars

\* C9 witness: a background task has just ended with the generator's
\* exception and the entry is Failed.
C9_Witness ==
    /\ last.op = "process_task"
    /\ last.raised = "generate_app"
    /\ Has(request_tracker, last.key, "failed")
    /\ request_tracker[last.key].error = "generator error"

\* C10: when generation and publishing succeed and the notifier reports
\* failure, the entry becomes Completed with the deployment record as result.
C10_NotifierFailureStillCompletes ==
    (/\ last.op = "process_task"
     /\ last.env.generator = "ok"
     /\ last.env.publisher = "ok"
     /\ last.env.notifier = "fail")
        => /\ Has(request_tracker, last.key, "completed")
           /\ request_tracker[last.key].result.type = "dict"

\* C11: whatever the live-page validation step yields, the notification is
\* attempted afterwards: a run that got as far as live validation has called
\* the notifier.
C11_LiveValidationNeverBlocksNotify ==
    (last.op = "process_task" /\ last.run.live # "not reached")
        => last.run.notified

\* C12: a background task that ends with an exception leaves the entry of
\* every other identity exactly as it was.
C12_FailureIsIsolated ==
    [][\A k \in Keys :
          (TaskEnds(k) /\ last'.raised # "none")
              => \A j \in (DOMAIN request_tracker \cup DOMAIN request_tracker') \ {k} :
                    /\ j \in DOMAIN request_tracker
                    /\ j \in DOMAIN request_tracker'
                    /\ request_tracker'[j] = request_tracker[j]]_vars

\* C12 witness: a task has just failed while another identity is Processing
\* with its own task still scheduled.
C12_Witness ==
    /\ last.op = "process_task"
    /\ last.raised # "none"
    /\ \E j \in Keys \ {last.key} :
          Has(request_tracker, j, "processing") /\ Running(j) > 0

C15_LicenseCarriedOver ==
    (call.fn = "_update_existing_app" /\ call.result.raised = "none")
      => /\ "LICENSE" \in DOMAIN call.result.files
         /\ "LICENSE" \in DOMAIN call.existing_files
              => call.result.files["LICENSE"] = call.existing_files["LICENSE"]

\* remediation was triggered by one failed check, a README-quality one
SingleReadmeFailure ==
    /\ call.fn = "fix_validation_failures"
    /\ Len(call.failed_checks) = 1
    /\ is_readme_check(lower(call.failed_checks[1].check))
    /\ ~is_license_check(lower(call.failed_checks[1].check))

Unclassified(check) ==
    LET check_lower == lower(check)
    IN  /\ ~is_license_check(check_lower)
        /\ ~is_readme_check(check_lower)
        /\ ~is_element_check(check_lower)
        /\ ~is_bootstrap_check(check_lower)
        /\ ~is_computation_check(check_lower)

\* C18: a check text that matches none of the five rules evaluates to
\* unknown (never true, never false) on every file set, with a result.
C18_UnclassifiedIsUnknown ==
    (call.fn = "_validate_single_check" /\ Unclassified(call.check))
      => /\ call.result.passed = PyNone
         /\ call.result.check = call.check

\* an unclassified check most of whose keywords are on the page
C18_Witness ==
    /\ call.fn = "_validate_single_check"
    /\ call.check = "Page displays the total sales"
    /\ "index.html" \in DOMAIN call.files
    /\ call.files["index.html"] = PagePlain
    /\ call.result.message = "Some keywords found, but cannot fully validate programmatically"

\* C19: in every report all_passed holds exactly when failed_count and
\* unknown_count are both 0, and the three counts tally the true, false and
\* unknown results of the checks, one result per check.
C19_AllPassedIffNoFailedNoUnknown ==
    call.fn = "validate_against_checks"
      => LET report == call.result
             tally(value) == Cardinality({ i \in 1..Len(report.results) :
                                             report.results[i].passed = value })
         IN  /\ report.all_passed <=> (report.failed_count = 0 /\ report.unknown_count = 0)
             /\ report.passed_count  = tally(PyTrue)
             /\ report.failed_count  = tally(PyFalse)
             /\ report.unknown_count = tally(PyNone)
             /\ Len(report.results) = Len(call.checks)
             /\ \A i \in 1..Len(call.checks) : report.results[i].check = call.checks[i]
             /\ report.passed_count + report.failed_count + report.unknown_count
                  = report.total_checks

\* a report with no failure but unknown results only: not all passed
C19_Witness ==
    /\ call.fn = "validate_against_checks"
    /\ call.result.failed_count = 0
    /\ call.result.unknown_count = 2
    /\ ~call.result.all_passed

\* the Bootstrap major versions a page of the model loads from a CDN
BootstrapLoaded(html) ==
    CASE html = PageV5      -> {5}
      [] html = PageV4      -> {4}
      [] html = PageV4Icons -> {4}
      [] OTHER              -> {}

\* C20: a version-5 Bootstrap check is true on a page with a version-5 CDN
\* URL, and false on a page that loads Bootstrap in version 4 only,
\* whatever else the page contains.
C20_BootstrapFiveOnly ==
    (/\ call.fn = "_validate_single_check"
     /\ call.check = "Page loads Bootstrap 5 from CDN"
     /\ "index.html" \in DOMAIN call.files)
      => LET loaded == BootstrapLoaded(call.files["index.html"])
         IN  /\ 5 \in loaded => call.result.passed = PyTrue
             /\ loaded = {4} => call.result.passed = PyFalse

\* C21: when the generator, the publisher and the notifier all succeed for
\* an accepted task, the tracker entry of its identity eventually becomes
\* Completed (not Failed), in round 1 and in round > 1: the accepted task
\* eventually runs, and the run in which all three succeed leaves the entry
\* Completed.
C21_EventuallyCompleted ==
    \A k \in Keys :
        [](Running(k) > 0
             => <>(/\ last.op = "process_task"
                   /\ last.key = k
                   /\ ((last.env.generator = "ok" /\ last.env.publisher = "ok" /\ last.env.notifier = "ok")
                         => Has(request_tracker, k, "completed"))))

\* the request a tracker key was computed from (main.py:156-157)
RequestOf(k) == [task |-> k[1], round |-> k[2], nonce |-> k[3]]

\* the steps of the pipeline in the order of the specification, for a run
\* that fetched the repository first when the round asked for it
StepsInOrder(round, checks) ==
    { (IF round > 1 THEN <<"get_repository_files">> ELSE <<>>)
        \o <<"generate_app", "validate_static_files", "validate_against_checks">>
        \o remediation(checks)
        \o <<publish, "validate_deployed_page", "notify_evaluation_server",
             "completed">> :
      publish \in {"create_and_deploy", "update_repository"} }

\* C22: a pipeline whose collaborators work runs generation, static and
\* per-check validation, remediation if any check failed, publish, live
\* validation and notification in this order and only then writes its
\* terminal status; publish never comes before validation and Completed is
\* never written before the notification attempt.
C22_StepsInOrder ==
    (last.op = "process_task" /\ MeantToComplete(last.env))
        => \A checks \in CheckOutcomes :
               steps(RequestOf(last.key), last.env, checks)
                   \in StepsInOrder(last.key[2], checks)

\* C23: a submit answered as a duplicate schedules no background task and
\* leaves the tracker as it was, the entry's status and timestamp included.
C23_DuplicateChangesNothing ==
    [][\A k \in Keys :
          (SubmitStep(k) /\ last'.response \in {"processing", "already_completed"})
              => /\ background_tasks' = background_tasks
                 /\ request_tracker' = request_tracker]_vars

\* a duplicate was answered for an entry older than the answer
C23_Witness ==
    /\ last.op = "build_and_deploy"
    /\ last.response = "processing"
    /\ Has(request_tracker, last.key, "processing")
    /\ request_tracker[last.key].timestamp < now

\* the remediation step has run
Remediated == call.fn = "fix_validation_failures"

\* a failed check of the remediation step is grouped under this file
Needs(path) ==
    \E i \in 1..Len(call.failed_checks) : fix_group(call.failed_checks[i]) = path

\* the two file sets differ in a path or in the content of a path
Differ(f, g) ==
    \/ DOMAIN f # DOMAIN g
    \/ \E path \in DOMAIN f \cap DOMAIN g : f[path] # g[path]

\* C24 as stated: whenever remediation is triggered (a check failed), one
\* remediation pass runs and exactly one re-evaluation of all checks is
\* performed after it.
C24_ExactlyOneReevaluation ==
    Remediated => call.after.revalidations = 1

\* C24, amended: one remediation pass runs; the checks are re-evaluated once
\* when the pass changed the file set and not at all when it returned the
\* file set as it was.
C24_ReevaluationOnlyAfterChange ==
    Remediated =>
        /\ call.after.revalidations \in {0, 1}
        /\ call.after.revalidations = 1 <=> Differ(call.files, call.fixed_files)

\* a check failed, the pass left the file set as it was, nothing was
\* re-evaluated
C24_Witness ==
    /\ Remediated
    /\ ~Differ(call.files, call.fixed_files)
    /\ call.after.revalidations = 0

\* the generator call that was to repair this file raised
CallFailed(path) ==
    /\ Needs(path)
    /\ IF path = "README.md" THEN ~call.answered ELSE ~call.html_answered

\* the content of a path before remediation, as files.get(path, "") reads it
Before(path) ==
    IF path \in DOMAIN call.files THEN call.files[path] ELSE ""

FixedPaths == {"README.md", "index.html"}

Created == call.fn = "_create_new_app" /\ call.result.raised = "none"

\* what the generator's response and the attachments supply
Supplied == _parse_response(call.response, call.attachments).files

\* C26 as stated: round-1 synthesis adds the license and the summary only
\* where they are absent; a LICENSE or README.md the generator supplies is
\* in the returned file set unchanged.
C26_SuppliedReservedFilesKept ==
    Created =>
        \A path \in {"LICENSE", "README.md"} \cap DOMAIN Supplied :
            call.result.files[path] = Supplied[path]

\* C26, amended: round-1 synthesis always writes the license and the summary
\* itself; LICENSE is the engine's MIT text and README.md the engine's
\* generated summary, whether or not the generator supplied one, and every
\* other supplied path is returned unchanged.
C26_ReservedFilesAlwaysGenerated ==
    Created =>
        /\ call.result.files["LICENSE"] \in { _generate_mit_license(year) : year \in Years }
        /\ \E brief \in Briefs, task_id \in TaskIds, stamp \in Stamps :
               call.result.files["README.md"]
                   = _generate_readme(brief, task_id,
                                      ("LICENSE" :> call.result.files["LICENSE"]) @@ Supplied,
                                      stamp)
        /\ \A path \in DOMAIN Supplied \ {"LICENSE", "README.md"} :
               call.result.files[path] = Supplied[path]

\* the generator supplied its own LICENSE and README.md; both were replaced
C26_Witness ==
    /\ Created
    /\ {"LICENSE", "README.md"} \subseteq DOMAIN Supplied
    /\ Supplied["LICENSE"] = "Apache License 2.0"
    /\ call.result.files["LICENSE"] # Supplied["LICENSE"]
    /\ call.result.files["README.md"] # Supplied["README.md"]

\* the rules in the order of the specification: license, summary quality,
\* element id, Bootstrap, computation, fallback
RuleOrder == 1..6

\* the rules whose condition the check text satisfies (the fallback has none)
Applicable(check) ==
    LET check_lower == lower(check)
    IN  { rule \in RuleOrder :
            \/ rule = 1 /\ is_license_check(check_lower)
            \/ rule = 2 /\ is_readme_check(check_lower)
            \/ rule = 3 /\ is_element_check(check_lower)
            \/ rule = 4 /\ is_bootstrap_check(check_lower)
            \/ rule = 5 /\ is_computation_check(check_lower)
            \/ rule = 6 }

\* the rule a result comes from, told by its message
EvaluatedBy(result) ==
    LET message == result.message
    IN  IF startswith(message, "LICENSE") \/ message = "MIT License found" THEN 1
        ELSE IF startswith(message, "README") THEN 2
        ELSE IF \/ message = "Could not extract ID from check string"
                \/ message = "index.html missing, cannot check for element"
                \/ startswith(message, "Element with id='") THEN 3
        ELSE IF message = "index.html missing" \/ In("Bootstrap", message) THEN 4
        ELSE IF startswith(message, "Code ") THEN 5
        ELSE 6

\* C27: a check is evaluated by the earliest rule, in the order license,
\* summary quality, element id, Bootstrap, computation, fallback, whose
\* condition its text satisfies, and by that rule only.
C27_EarliestRuleEvaluates ==
    call.fn = "_validate_single_check"
      => /\ EvaluatedBy(call.result) \in Applicable(call.check)
         /\ \A rule \in Applicable(call.check) : EvaluatedBy(call.result) <= rule

\* a check text that satisfies two rules, evaluated by the earlier one
C27_Witness ==
    /\ call.fn = "_validate_single_check"
    /\ Cardinality(Applicable(call.check) \ {6}) >= 2
    /\ call.check = "Page loads Bootstrap from CDN into element with id='result'"
    /\ EvaluatedBy(call.result) = 3

\* the check of the last call was evaluated by the element-id rule
ElementRuleEvaluates ==
    /\ call.fn = "_validate_single_check"
    /\ 3 \in Applicable(call.check)
    /\ Applicable(call.check) \cap {1, 2} = {}

\* the root page of the last call holds an element with this id
PageHasId(id) ==
    /\ "index.html" \in DOMAIN call.files
    /\ \/ soup_find(call.files["index.html"], id)
       \/ id_pattern(call.files["index.html"], id)

\* C28 as stated: a check evaluated by the element-id rule yields only true
\* or false, and false only when the root page is in the file set and holds
\* no element with that id.
C28_FalseOnlyWithRootPage ==
    ElementRuleEvaluates =>
        /\ call.result.passed \in {PyTrue, PyFalse}
        /\ call.result.passed = PyFalse
             => /\ "index.html" \in DOMAIN call.files
                /\ ~PageHasId(id_match(call.check).id)

\* C28, amended: the element-id rule yields unknown exactly when the check
\* text holds no quoted id; otherwise it yields true or false, true only
\* when the root page holds an element with that id, and false both when the
\* root page is missing and when it holds no such element.
C28_ElementRuleOutcomes ==
    ElementRuleEvaluates =>
        LET m == id_match(call.check)
        IN  /\ call.result.passed = PyNone <=> ~m.found
            /\ m.found =>
                 /\ call.result.passed \in {PyTrue, PyFalse}
                 /\ call.result.passed = PyTrue => PageHasId(m.id)
                 /\ "index.html" \notin DOMAIN call.files => call.result.passed = PyFalse
                 /\ ("index.html" \in DOMAIN call.files /\ call.result.passed = PyFalse)
                      => ~id_pattern(call.files["index.html"], m.id)

\* a quoted id and a file set without root page: the rule answers false
C28_Witness ==
    /\ ElementRuleEvaluates
    /\ call.check = "Page has element with id='result'"
    /\ "index.html" \notin DOMAIN call.files
    /\ call.result.passed = PyFalse
    /\ call.result.message = "index.html missing, cannot check for element"

\* C29: the notification a pipeline builds for an accepted request carries
\* the task, the round and the nonce of the identity under which the request
\* was admitted to the tracker, on every path of the pipeline that reaches
\* the notification.
C29_NotificationCarriesIdentity ==
    (last.op = "process_task" /\ last.run.notification # None)
        => << last.run.notification.task,
              last.run.notification.round,
              last.run.notification.nonce >> = last.key

\* C30: two pipelines that run at the same time never target the same
\* repository name.
C30_DistinctRepositories ==
    \A j, k \in Keys :
        (j # k /\ Running(j) > 0 /\ Running(k) > 0)
            => RepoName(j[1]) # RepoName(k[1])

====
